---- MODULE Spec2Model ----
(***************************************************************************)
(* Model of SimEx.Analysis.DiffractionAnalysis (Python 2): the selection   *)
(* state of a DiffractionAnalysis instance (pattern_indices, poissonize),  *)
(* the lazy pattern generator over the two on-disk layouts, and the        *)
(* parameter loader diffractionParameters.                                 *)
(*                                                                         *)
(* File names and hdf5 keys are sequences of one-character strings, so     *)
(* that sorting, splitting at '.' and zero padding are computed.           *)
(***************************************************************************)
EXTENDS Integers, Sequences, FiniteSets, TLC

(* ------------------------------ bounds --------------------------------- *)

\* Largest index a caller puts into an explicit selection.
MaxIdx == 2

\* Longest explicit selection a caller assigns.
MaxSel == 2

(* --------------------------- python values ----------------------------- *)

\* A python value handed to a setter: t is the type, n the number (int,
\* long, float), s the elements of a list of ints, str the text of a str
\* (or the single str element of a list of strs).
Val(t, n, s, str) == [t |-> t, n |-> n, s |-> s, str |-> str]

PyNone == Val("None", 0, <<>>, "")
PyInt(k) == Val("int", k, <<>>, "")
PyLong == Val("long", 0, <<>>, "")
PyFloat == Val("float", 0, <<>>, "")
PyStr(x) == Val("str", 0, <<>>, x)
PyList(q) == Val("list", 0, q, "")
PyStrList == Val("strlist", 0, <<>>, "a")
PyBool(b) == Val("bool", IF b THEN 1 ELSE 0, <<>>, "")
Unset == Val("unset", 0, <<>>, "")

\* Sequences over S of length at most n.
SeqUpTo(S, n) == UNION {[1..k -> S] : k \in 0..n}

\* The integers a caller uses as indices: -1 is the negative one.
IdxDom == (-1)..MaxIdx

\* What a caller assigns to pattern_indices.
IndexInputs ==
    {PyNone, PyLong, PyFloat, PyStr("all"), PyStr("abc"), PyStrList}
      \cup {PyInt(k) : k \in IdxDom}
      \cup {PyList(q) : q \in SeqUpTo(0..MaxIdx, MaxSel)}

\* What a caller assigns to poissonize.
FlagInputs == {PyNone, PyBool(TRUE), PyBool(FALSE), PyInt(1), PyStr("abc")}

\* isinstance(v, int): bool is a subclass of int, long is not.
IsInstanceInt(v) == v.t \in {"int", "bool"}

\* hasattr(v, '__iter__'): lists have it, python 2 str does not.
HasIter(v) == v.t \in {"list", "strlist"}

\* v == 'all'
EqualsAll(v) == v.t = "str" /\ v.str = "all"

\* isinstance(v, bool)
IsInstanceBool(v) == v.t = "bool"

(* ----------------------- pattern_indices setter ------------------------ *)

\* The setter's outcome on input v: raised says whether TypeError is
\* raised, val what is stored otherwise.
PatternIndicesSetterDropsIntWrap(v) ==
    LET indices == IF v.t = "None" THEN PyStr("all") ELSE v
    IN  IF ~(IsInstanceInt(indices) \/ EqualsAll(indices) \/ HasIter(indices))
        THEN [raised |-> TRUE, val |-> Unset]
        ELSE [raised |-> FALSE, val |-> indices]

PatternIndicesSetterAcceptsAll(v) ==
    LET indices == IF v.t = "None" THEN PyStr("all") ELSE v
    IN  [raised |-> FALSE,
         val |-> IF IsInstanceInt(v) THEN PyList(<<v.n>>) ELSE indices]

PatternIndicesSetter(v) ==
    LET indices == IF v.t = "None" THEN PyStr("all") ELSE v
    IN  IF ~(IsInstanceInt(indices) \/ EqualsAll(indices) \/ HasIter(indices))
        THEN [raised |-> TRUE, val |-> Unset]
        ELSE [raised |-> FALSE,
              val |-> IF IsInstanceInt(v) THEN PyList(<<v.n>>) ELSE indices]

\* The poissonize setter: None is the default True, a non-bool raises.
PoissonizeSetter(v) ==
    LET val == IF v.t = "None" THEN PyBool(TRUE) ELSE v
    IN  IF ~IsInstanceBool(val)
        THEN [raised |-> TRUE, val |-> FALSE]
        ELSE [raised |-> FALSE, val |-> (val.n = 1)]

(* --------------------------- names and keys ---------------------------- *)

\* ord(c) for the characters that occur in the modelled names.
Ord(c) ==
    CASE c = "-" -> 45 [] c = "." -> 46 [] c = "0" -> 48 [] c = "1" -> 49
      [] c = "2" -> 50 [] c = "3" -> 51 [] c = "4" -> 52 [] c = "5" -> 53
      [] c = "6" -> 54 [] c = "7" -> 55 [] c = "8" -> 56 [] c = "9" -> 57
      [] c = "_" -> 95 [] c = "a" -> 97 [] c = "b" -> 98 [] c = "d" -> 100
      [] c = "e" -> 101 [] c = "f" -> 102 [] c = "g" -> 103 [] c = "h" -> 104
      [] c = "i" -> 105 [] c = "k" -> 107 [] c = "n" -> 110 [] c = "o" -> 111
      [] c = "/" -> 47 [] c = "r" -> 114
      [] c = "t" -> 116 [] c = "u" -> 117 [] c = "x" -> 120

\* a < b for python 2 str: lexicographic by character code.
RECURSIVE StrLess(_, _)
StrLess(a, b) ==
    IF a = <<>> THEN b # <<>>
    ELSE IF b = <<>> THEN FALSE
    ELSE IF Ord(Head(a)) # Ord(Head(b)) THEN Ord(Head(a)) < Ord(Head(b))
    ELSE StrLess(Tail(a), Tail(b))

\* list.sort() of a listing of distinct names.
RECURSIVE SortNames(_)
SortNames(S) ==
    IF S = {} THEN <<>>
    ELSE LET least == CHOOSE x \in S : \A y \in S \ {x} : StrLess(x, y)
         IN  <<least>> \o SortNames(S \ {least})

\* f.split('.')[-1]: the text after the last '.', the whole name if none.
RECURSIVE LastDotPart(_)
LastDotPart(f) ==
    IF \E i \in 1..Len(f) : f[i] = "."
    THEN LastDotPart(Tail(f))
    ELSE f

\* The decimal digits of n >= 0, most significant first.
DigitChar(d) == <<"0", "1", "2", "3", "4", "5", "6", "7", "8", "9">>[d + 1]

RECURSIVE Digits(_)
Digits(n) == IF n < 10 THEN <<DigitChar(n)>> ELSE Digits(n \div 10) \o <<DigitChar(n % 10)>>

RECURSIVE ZeroPad(_, _)
ZeroPad(d, w) == IF Len(d) >= w THEN d ELSE ZeroPad(<<"0">> \o d, w)

\* "%0.7d" % ix: at least seven digits, zero padded, a sign before them.
FormatKey(ix) ==
    IF ix < 0 THEN <<"-">> \o ZeroPad(Digits(-ix), 7) ELSE ZeroPad(Digits(ix), 7)

\* os.path.join(path, f)
Join(path, f) == path \o <<"/">> \o f

(* ----------------------------- file system ----------------------------- *)

\* The input path handed to the constructor.
InputPath == <<"i", "n">>

\* The entries a legacy directory can hold, and the fixed parameter file.
ParamFileName ==
    <<"d","i","f","f","r","_","o","u","t","_","0","0","0","0","0","0","1",".","h","5">>
BakName == <<"a", ".", "h", "5", ".", "b", "a", "k">>
SecondName == <<"e", ".", "h", "5">>
TxtName == <<"f", ".", "t", "x", "t">>
TarName == <<"g", ".", "t", "a", "r", ".", "h", "5">>

\* The address of a dataset below /data: key is <<>> in the legacy layout.
Dataset(key, ds) == [key |-> key, ds |-> ds]

\* One group below /params: present or not, its children, and the
\* children whose value cannot be read.
Group(present, kids, bad) == [present |-> present, kids |-> kids, bad |-> bad]

\* A file: whether h5py can open it, its /params groups, its datasets.
Content(open, beam, geom, data) ==
    [open |-> open, beam |-> beam, geom |-> geom, data |-> data]

BeamKids == {"photonEnergy"}
GeomKids == {"pixelWidth", "detectorDist"}
GoodBeam == Group(TRUE, BeamKids, {})
GoodGeom == Group(TRUE, GeomKids, {})

\* A file system: what the input path is, the directory's entries, and the
\* content of every file by full path.
FileSys(kind, entries, files) == [kind |-> kind, entries |-> entries, files |-> files]

IsDir(fs) == fs.kind = "dir"
IsFile(fs) == fs.kind = "file"

\* h5py.File(p, 'r') succeeds.
CanOpen(fs, p) == p \in DOMAIN fs.files /\ fs.files[p].open

(* ------------------------ diffractionParameters ------------------------ *)

\* The value of child k of group g in file p.
ParamValue(p, g, k) == [file |-> p, group |-> g, name |-> k]

\* The mapping built for one top-level key from file p.
GroupDict(p, g, grp) == [k \in grp.kids |-> ParamValue(p, g, k)]

ParamsResult(status, opens, dict) == [status |-> status, opens |-> opens, dict |-> dict]

\* No dictionary: the call raised.
NoParameters == [beam |-> <<>>, geom |-> <<>>]

\* The file diffractionParameters reads, by path kind.
ParamFile(fs, path) ==
    IF IsDir(fs) THEN Join(path, ParamFileName) ELSE path

\* diffractionParameters(path): status "ok" and the dictionary, or the
\* error raised; opens are the h5py.File calls made.
DiffractionParametersPartial(fs, path) ==
    IF ~IsDir(fs) /\ ~IsFile(fs)
    THEN ParamsResult("IOError", <<>>, NoParameters)
    ELSE LET h5_file == ParamFile(fs, path)
         IN  IF ~CanOpen(fs, h5_file)
             THEN ParamsResult("IOError", <<h5_file>>, NoParameters)
             ELSE LET c == fs.files[h5_file]
                  IN  ParamsResult("ok", <<h5_file>>,
                        [beam |-> IF c.beam.present
                                  THEN GroupDict(h5_file, "beam", Group(TRUE, c.beam.kids \ c.beam.bad, {}))
                                  ELSE <<>>,
                         geom |-> IF c.geom.present
                                  THEN GroupDict(h5_file, "geom", Group(TRUE, c.geom.kids \ c.geom.bad, {}))
                                  ELSE <<>>])

DiffractionParameters(fs, path) ==
    IF ~IsDir(fs) /\ ~IsFile(fs)
    THEN ParamsResult("IOError", <<>>, NoParameters)
    ELSE LET h5_file == ParamFile(fs, path)
         IN  IF ~CanOpen(fs, h5_file)
             THEN ParamsResult("IOError", <<h5_file>>, NoParameters)
             ELSE LET c == fs.files[h5_file]
                  IN  IF ~c.beam.present \/ ~c.geom.present
                      THEN ParamsResult("KeyError", <<h5_file>>, NoParameters)
                      ELSE IF c.beam.bad # {} \/ c.geom.bad # {}
                      THEN ParamsResult("AttributeError", <<h5_file>>, NoParameters)
                      ELSE ParamsResult("ok", <<h5_file>>,
                             [beam |-> GroupDict(h5_file, "beam", c.beam),
                              geom |-> GroupDict(h5_file, "geom", c.geom)])

(* --------------------------- modelled inputs --------------------------- *)

\* The keys of the consolidated store, as h5py names them.
Key1 == <<"0", "0", "0", "0", "0", "0", "1">>
Key2 == <<"0", "0", "0", "0", "0", "0", "2">>
Key3 == <<"0", "0", "0", "0", "0", "0", "3">>

\* What a frame file or a frame key can be: complete, without its
\* poissonized dataset, unopenable (a file) or absent (a key).
FrameKinds == {"ok", "nodata", "bad"}

\* The datasets kind k puts below key.
FrameData(key, k) ==
    CASE k = "ok" -> {Dataset(key, "data"), Dataset(key, "diffr")}
      [] k = "nodata" -> {Dataset(key, "diffr")}
      [] OTHER -> {}

\* A legacy frame file of kind k.
FrameFile(k) == Content(k # "bad", GoodBeam, GoodGeom, FrameData(<<>>, k))

\* An entry h5py cannot open.
Junk == Content(FALSE, Group(FALSE, {}, {}), Group(FALSE, {}, {}), {})

\* A legacy directory: the backup entry is there or not, and the three
\* h5 files are of kinds k1, k2, k3.
DirEnv(withBak, k1, k2, k3) ==
    LET entries == {ParamFileName, SecondName, TxtName, TarName}
                     \cup (IF withBak THEN {BakName} ELSE {})
        content(f) == CASE f = ParamFileName -> FrameFile(k1)
                        [] f = SecondName -> FrameFile(k2)
                        [] f = TarName -> FrameFile(k3)
                        [] OTHER -> Junk
    IN  FileSys("dir", entries,
                [p \in {Join(InputPath, f) : f \in entries} |->
                   content(CHOOSE f \in entries : Join(InputPath, f) = p)])

\* A consolidated file whose keys 1 and 2 are of kinds k1 and k2.
FileEnv(open, k1, k2) ==
    FileSys("file", {},
            [p \in {InputPath} |->
               Content(open, GoodBeam, GoodGeom,
                       FrameData(Key1, k1) \cup FrameData(Key2, k2)
                         \cup FrameData(Key3, "ok"))])

\* The input path names nothing.
NoEnv == FileSys("none", {}, [p \in {} |-> Junk])

Envs ==
    {DirEnv(b, k1, k2, k3) : b \in BOOLEAN, k1 \in {"ok", "nodata", "bad"},
                             k2 \in FrameKinds, k3 \in {"ok", "bad"}}
      \cup {FileEnv(TRUE, k1, k2) : k1 \in FrameKinds, k2 \in FrameKinds}
      \cup {FileEnv(FALSE, "ok", "ok"), NoEnv}

(* -------------------------------- state -------------------------------- *)

VARIABLES
    fs,               \* the file system below the input path
    obj,              \* "none" before a successful construction, then "live"
    pattern_indices,  \* self.__pattern_indices
    poissonize,       \* self.__poissonize
    parameters,       \* self.__parameters
    op,               \* the name of the last call made on the instance
    err,              \* how the last call ended: "ok" or the exception
    ctorOpens,        \* the h5py.File calls of the constructor
    gen,              \* the pattern generator's frame
    handles,          \* the files the generator holds open
    ioLog,            \* the generator's opens and reads of this pass
    yielded,          \* the frames the generator yielded in this pass
    skipped,          \* the files the legacy loop skipped in this pass
    obtained,         \* the selection and the flag when the iterator was obtained
    arg,              \* the argument of a module-level function called on its own
    ret               \* what that function computed

vars == <<fs, obj, pattern_indices, poissonize, parameters, op, err, ctorOpens,
          gen, handles, ioLog, yielded, skipped, obtained, arg, ret>>

\* The generator: state is none, created, running, suspended, exhausted,
\* raised or closed; driver is the call that runs it (next or close); pc
\* the place in the body; indices, items and pos its locals; exc the
\* exception that ended the body, if one did.
Gen(state, driver, pc, layout, indices, items, pos) ==
    [state |-> state, driver |-> driver, pc |-> pc, layout |-> layout,
     indices |-> indices, items |-> items, pos |-> pos, exc |-> "none"]

NoGen == Gen("none", "next", "begin", "none", Unset, <<>>, 1)

Init ==
    /\ fs \in Envs
    /\ obj = "none"
    /\ pattern_indices = Unset
    /\ poissonize = FALSE
    /\ parameters = NoParameters
    /\ op = "init"
    /\ err = "ok"
    /\ ctorOpens = <<>>
    /\ gen = NoGen
    /\ handles = {}
    /\ ioLog = <<>>
    /\ yielded = <<>>
    /\ skipped = <<>>
    /\ obtained = Unset
    /\ arg = PyNone
    /\ ret = PyNone

(* ----------------------------- constructor ----------------------------- *)

\* __init__ in the order of its statements: the pattern_indices setter,
\* the poissonize setter, then diffractionParameters.
CtorResult(status, pi, pz, opens, dict) ==
    [status |-> status, pi |-> pi, pz |-> pz, opens |-> opens, dict |-> dict]

InitOutcomeLoadsFirst(f, pi, pz) ==
    LET a == PatternIndicesSetter(pi)
        b == PoissonizeSetter(pz)
        c == DiffractionParameters(f, InputPath)
    IN  IF c.status # "ok" THEN CtorResult(c.status, Unset, FALSE, c.opens, NoParameters)
        ELSE IF a.raised \/ b.raised
        THEN CtorResult("TypeError", Unset, FALSE, c.opens, NoParameters)
        ELSE CtorResult("ok", a.val, b.val, c.opens, c.dict)

InitOutcome(f, pi, pz) ==
    LET a == PatternIndicesSetter(pi)
        b == PoissonizeSetter(pz)
        c == DiffractionParameters(f, InputPath)
    IN  IF a.raised THEN CtorResult("TypeError", Unset, FALSE, <<>>, NoParameters)
        ELSE IF b.raised THEN CtorResult("TypeError", Unset, FALSE, <<>>, NoParameters)
        ELSE IF c.status # "ok" THEN CtorResult(c.status, Unset, FALSE, c.opens, NoParameters)
        ELSE CtorResult("ok", a.val, b.val, c.opens, c.dict)

\* DiffractionAnalysis(input_path, pattern_indices=pi, poissonize=pz)
Construct(pi, pz) ==
    /\ obj = "none"
    /\ LET r == InitOutcome(fs, pi, pz)
       IN  /\ obj' = IF r.status = "ok" THEN "live" ELSE "none"
           /\ pattern_indices' = r.pi
           /\ poissonize' = r.pz
           /\ parameters' = r.dict
           /\ ctorOpens' = r.opens
           /\ err' = r.status
    /\ op' = "construct"
    /\ UNCHANGED <<fs, gen, handles, ioLog, yielded, skipped>>

(* ------------------------------- setters ------------------------------- *)

\* No call is made on the instance while the generator's body runs.
Idle == obj = "live" /\ gen.state # "running"

\* self.pattern_indices = v
SetPatternIndices(v) ==
    /\ Idle
    /\ LET r == PatternIndicesSetter(v)
       IN  /\ pattern_indices' = IF r.raised THEN pattern_indices ELSE r.val
           /\ err' = IF r.raised THEN "TypeError" ELSE "ok"
    /\ op' = "set_pattern_indices"
    /\ UNCHANGED <<fs, obj, poissonize, parameters, ctorOpens, gen, handles,
                   ioLog, yielded, skipped>>

\* self.poissonize = v
SetPoissonize(v) ==
    /\ Idle
    /\ LET r == PoissonizeSetter(v)
       IN  /\ poissonize' = IF r.raised THEN poissonize ELSE r.val
           /\ err' = IF r.raised THEN "TypeError" ELSE "ok"
    /\ op' = "set_poissonize"
    /\ UNCHANGED <<fs, obj, pattern_indices, parameters, ctorOpens, gen, handles,
                   ioLog, yielded, skipped>>

(* -------------------------- pattern generator -------------------------- *)

\* The elements of a sequence.
Range(q) == {q[i] : i \in 1..Len(q)}

\* i in indices, for an int i.
Contains(indices, i) == indices.t = "list" /\ i \in Range(indices.s)

\* [d for (i, d) in enumerate(listing) if i in indices], i counted from i0.
RECURSIVE KeepAt(_, _, _)
KeepAt(listing, i0, indices) ==
    IF listing = <<>> THEN <<>>
    ELSE (IF Contains(indices, i0) THEN <<Head(listing)>> ELSE <<>>)
           \o KeepAt(Tail(listing), i0 + 1, indices)

\* [f for f in listing if f.split('.')[-1] == "h5"]
RECURSIVE KeepH5(_)
KeepH5(listing) ==
    IF listing = <<>> THEN <<>>
    ELSE (IF LastDotPart(Head(listing)) = <<"h", "5">> THEN <<Head(listing)>> ELSE <<>>)
           \o KeepH5(Tail(listing))

\* [os.path.join(path, f) for f in listing]
JoinAll(path, listing) == [i \in 1..Len(listing) |-> Join(path, listing[i])]

\* The h5 files of the legacy branch: the sorted listing, cut down to the
\* positions in indices unless indices is 'all', then to the h5 entries.
LegacyFilesFilterFirst(f, path, indices) ==
    LET dir_listing == KeepH5(SortNames(f.entries))
        chosen == IF ~EqualsAll(indices) THEN KeepAt(dir_listing, 0, indices)
                  ELSE dir_listing
    IN  JoinAll(path, chosen)

LegacyFiles(f, path, indices) ==
    LET dir_listing == SortNames(f.entries)
        chosen == IF ~EqualsAll(indices) THEN KeepAt(dir_listing, 0, indices)
                  ELSE dir_listing
    IN  JoinAll(path, KeepH5(chosen))

\* The keys of the consolidated branch: every child of /data in h5py's
\* name order for 'all', else the formatted indices in the order given.
ConsKeysSorted(f, path, indices) ==
    SortNames({d.key : d \in f.files[path].data}
                \cap (IF EqualsAll(indices) THEN {d.key : d \in f.files[path].data}
                      ELSE {FormatKey(ix) : ix \in Range(indices.s)}))

ConsKeys(f, path, indices) ==
    IF EqualsAll(indices)
    THEN SortNames({d.key : d \in f.files[path].data})
    ELSE [j \in 1..Len(indices.s) |-> FormatKey(indices.s[j])]

\* root_path + 'data' if self.poissonize else root_path + 'diffr'
PathToData(key, pz) == Dataset(key, IF pz THEN "data" ELSE "diffr")

\* An open or a read the generator makes, and the call it runs under.
IoEvent(what, file, ds, by) == [what |-> what, file |-> file, ds |-> ds, by |-> by]

\* A yielded frame: the file or key it was read from, the dataset, the
\* flag in force at the read, and the call the yield answered.
Frame(item, d, pz, via) == [item |-> item, ds |-> d.ds, key |-> d.key, pz |-> pz, via |-> via]

\* self.patterns_iterator: a fresh generator, whose body has not run.
Obtain ==
    /\ Idle
    /\ gen.state \in {"none", "created", "exhausted", "raised", "closed"}
    /\ gen' = Gen("created", "next", "begin", "none", Unset, <<>>, 1)
    /\ ioLog' = <<>>
    /\ yielded' = <<>>
    /\ skipped' = <<>>
    /\ op' = "patterns_iterator"
    /\ err' = "ok"
    /\ UNCHANGED <<fs, obj, pattern_indices, poissonize, parameters, ctorOpens, handles>>

\* next(g): the body runs from where it stands; on a finished generator
\* it raises StopIteration.
GeneratorNext ==
    /\ Idle
    /\ gen.state \in {"created", "suspended", "exhausted", "raised", "closed"}
    /\ op' = "next"
    /\ CASE gen.state = "created" ->
              /\ gen' = [gen EXCEPT !.state = "running", !.driver = "next", !.pc = "begin"]
              /\ err' = "ok"
              /\ UNCHANGED handles
         [] gen.state = "suspended" ->
              \* the legacy with-block ends after the yield, the
              \* consolidated one spans the loop
              /\ gen' = [gen EXCEPT !.state = "running", !.driver = "next",
                                    !.pc = "loop", !.pos = @ + 1]
              /\ handles' = IF gen.layout = "legacy" THEN {} ELSE handles
              /\ err' = "ok"
         [] OTHER ->
              /\ err' = "StopIteration"
              /\ UNCHANGED <<gen, handles>>
    /\ UNCHANGED <<fs, obj, pattern_indices, poissonize, parameters, ctorOpens,
                   ioLog, yielded, skipped>>

\* What leaving a with-block makes of the open handles: h5py closes the file.
ReleasedLeaks(h) == h

Released(h) == {}

\* What a failed open or read does to the iteration: the legacy loop's
\* bare except goes on to the next file, the consolidated branch has no
\* handler.
OnFailureAlwaysRaise(layout) == "raise"

OnFailureAlwaysSkip(layout) == "skip"

OnFailure(layout) == IF layout = "legacy" THEN "skip" ELSE "raise"

\* What GeneratorExit, thrown in at the yield by close(), does: the legacy
\* loop's bare except catches it too and goes on, the consolidated branch
\* lets it end the generator.
OnGeneratorExit(layout) == IF layout = "legacy" THEN "continue" ELSE "exit"

\* g.close(): nothing runs of a body not yet started or already finished;
\* at a yield GeneratorExit is thrown in, and the with-block is left.
GeneratorClose ==
    /\ Idle
    /\ gen.state \in {"created", "suspended", "exhausted", "raised", "closed"}
    /\ op' = "close"
    /\ err' = "ok"
    /\ CASE gen.state = "created" ->
              /\ gen' = [gen EXCEPT !.state = "closed"]
              /\ UNCHANGED handles
         [] gen.state = "suspended" /\ OnGeneratorExit(gen.layout) = "continue" ->
              /\ gen' = [gen EXCEPT !.state = "running", !.driver = "close",
                                    !.pc = "loop", !.pos = @ + 1]
              /\ handles' = Released(handles)
         [] gen.state = "suspended" /\ OnGeneratorExit(gen.layout) = "exit" ->
              /\ gen' = [gen EXCEPT !.state = "closed"]
              /\ handles' = Released(handles)
         [] OTHER ->
              UNCHANGED <<gen, handles>>
    /\ UNCHANGED <<fs, obj, pattern_indices, poissonize, parameters, ctorOpens,
                   ioLog, yielded, skipped>>

\* How the driving call ends when the body runs off its end: next() raises
\* StopIteration, close() returns.
EndOfBody == IF gen.driver = "next" THEN "StopIteration" ELSE "ok"

\* How the driving call ends at a yield: next() returns the frame, close()
\* raises RuntimeError (generator ignored GeneratorExit).
AtYield == IF gen.driver = "next" THEN "ok" ELSE "RuntimeError"

\* The first statements of the body: indices and path are read, then the
\* legacy branch lists the directory and the consolidated branch opens the
\* file and resolves the keys.
GenBegin ==
    /\ gen.state = "running" /\ gen.pc = "begin"
    /\ IF IsDir(fs)
       THEN /\ gen' = Gen("running", gen.driver, "loop", "legacy", pattern_indices,
                          LegacyFiles(fs, InputPath, pattern_indices), 1)
            /\ UNCHANGED <<handles, ioLog, err>>
       ELSE /\ ioLog' = Append(ioLog, IoEvent("open", InputPath, "", gen.driver))
            /\ IF ~CanOpen(fs, InputPath)
               THEN /\ gen' = [Gen("raised", gen.driver, "begin", "v0.2", pattern_indices, <<>>, 1)
                               EXCEPT !.exc = "IOError"]
                    /\ err' = "IOError"
                    /\ UNCHANGED handles
               ELSE IF ~EqualsAll(pattern_indices) /\ pattern_indices.t # "list"
               THEN \* "%0.7d" % ix on a str
                    /\ gen' = [Gen("raised", gen.driver, "begin", "v0.2", pattern_indices, <<>>, 1)
                               EXCEPT !.exc = "TypeError"]
                    /\ err' = "TypeError"
                    /\ handles' = Released({InputPath})
               ELSE /\ gen' = Gen("running", gen.driver, "loop", "v0.2", pattern_indices,
                                  ConsKeys(fs, InputPath, pattern_indices), 1)
                    /\ handles' = {InputPath}
                    /\ UNCHANGED err
    /\ UNCHANGED <<fs, obj, pattern_indices, poissonize, parameters, op, ctorOpens,
                   yielded, skipped>>

\* for h5_file in h5_files: ... with h5py.File(h5_file, 'r') as h5
LegacyOpen ==
    /\ gen.state = "running" /\ gen.pc = "loop" /\ gen.layout = "legacy"
    /\ IF gen.pos > Len(gen.items)
       THEN /\ gen' = [gen EXCEPT !.state = "exhausted"]
            /\ err' = EndOfBody
            /\ UNCHANGED <<handles, ioLog, skipped>>
       ELSE LET h5_file == gen.items[gen.pos]
            IN  /\ ioLog' = Append(ioLog, IoEvent("open", h5_file, "", gen.driver))
                /\ IF CanOpen(fs, h5_file)
                   THEN /\ handles' = handles \cup {h5_file}
                        /\ gen' = [gen EXCEPT !.pc = "read"]
                        /\ UNCHANGED <<err, skipped>>
                   ELSE IF OnFailure(gen.layout) = "skip"
                   THEN /\ gen' = [gen EXCEPT !.pos = @ + 1]
                        /\ skipped' = Append(skipped, h5_file)
                        /\ UNCHANGED <<err, handles>>
                   ELSE /\ gen' = [gen EXCEPT !.state = "raised", !.exc = "IOError"]
                        /\ err' = "IOError"
                        /\ UNCHANGED <<handles, skipped>>
    /\ UNCHANGED <<fs, obj, pattern_indices, poissonize, parameters, op, ctorOpens, yielded>>

\* diffr = h5[path_to_data].value; yield diffr: for the file (legacy) or
\* the key (consolidated) the loop stands at.
ReadAndYield(file, key) ==
    LET d == PathToData(key, poissonize)
    IN  /\ ioLog' = Append(ioLog, IoEvent("read", file, d.ds, gen.driver))
        /\ IF d \in fs.files[file].data
           THEN /\ yielded' = Append(yielded, Frame(IF key = <<>> THEN file ELSE key,
                                                    d, poissonize, gen.driver))
                /\ gen' = [gen EXCEPT !.state = "suspended", !.pc = "yield"]
                /\ err' = AtYield
                /\ UNCHANGED <<handles, skipped>>
           ELSE IF OnFailure(gen.layout) = "skip"
           THEN /\ gen' = [gen EXCEPT !.pc = "loop", !.pos = @ + 1]
                /\ skipped' = Append(skipped, file)
                /\ handles' = Released(handles)
                /\ UNCHANGED <<err, yielded>>
           ELSE /\ gen' = [gen EXCEPT !.state = "raised", !.exc = "KeyError"]
                /\ err' = "KeyError"
                /\ handles' = Released(handles)
                /\ UNCHANGED <<yielded, skipped>>

LegacyRead ==
    /\ gen.state = "running" /\ gen.pc = "read" /\ gen.layout = "legacy"
    /\ ReadAndYield(gen.items[gen.pos], <<>>)
    /\ UNCHANGED <<fs, obj, pattern_indices, poissonize, parameters, op, ctorOpens>>

\* for ix in indices: ... inside the one with-block of the consolidated branch
ConsRead ==
    /\ gen.state = "running" /\ gen.pc = "loop" /\ gen.layout = "v0.2"
    /\ IF gen.pos > Len(gen.items)
       THEN /\ gen' = [gen EXCEPT !.state = "exhausted"]
            /\ err' = EndOfBody
            /\ handles' = Released(handles)
            /\ UNCHANGED <<ioLog, yielded, skipped>>
       ELSE ReadAndYield(InputPath, gen.items[gen.pos])
    /\ UNCHANGED <<fs, obj, pattern_indices, poissonize, parameters, op, ctorOpens>>

(* ---------------------------- specification ---------------------------- *)

\* Under Spec the selection is assigned while no pass stands at a frame.
BetweenPasses == gen.state \in {"none", "created"}

\* The calls on the instance leave alone what the module-level functions
\* work on.
Next ==
    \/ \E pi \in IndexInputs, pz \in FlagInputs :
         Construct(pi, pz) /\ UNCHANGED <<obtained, arg, ret>>
    \/ \E v \in IndexInputs :
         BetweenPasses /\ SetPatternIndices(v) /\ UNCHANGED <<obtained, arg, ret>>
    \/ \E v \in FlagInputs : SetPoissonize(v) /\ UNCHANGED <<obtained, arg, ret>>
    \/ Obtain /\ UNCHANGED <<obtained, arg, ret>>
    \/ GeneratorNext /\ UNCHANGED <<obtained, arg, ret>>
    \/ GeneratorClose /\ UNCHANGED <<obtained, arg, ret>>
    \/ GenBegin /\ UNCHANGED <<obtained, arg, ret>>
    \/ LegacyOpen /\ UNCHANGED <<obtained, arg, ret>>
    \/ LegacyRead /\ UNCHANGED <<obtained, arg, ret>>
    \/ ConsRead /\ UNCHANGED <<obtained, arg, ret>>

Spec == Init /\ [][Next]_vars

\* diffractionParameters(path), called on its own.
LoadParameters ==
    /\ LET r == DiffractionParameters(fs, InputPath)
       IN  /\ parameters' = r.dict
           /\ err' = r.status
           /\ ctorOpens' = r.opens
    /\ op' = "diffractionParameters"
    /\ UNCHANGED <<fs, obj, pattern_indices, poissonize, gen, handles, ioLog,
                   yielded, skipped, obtained, arg, ret>>

\* The /params groups a file can hold: absent, or any children of which
\* any may be unreadable.
Groups(kids) ==
    {Group(FALSE, {}, {})}
      \cup UNION {{Group(TRUE, K, B) : B \in SUBSET K} : K \in SUBSET kids}

ParamContents ==
    {Junk} \cup {Content(TRUE, b, g, {}) : b \in Groups(BeamKids), g \in Groups(GeomKids)}

\* A directory with a second h5 file beside the parameter file, which is
\* there or not.
ParamDirEnv(present, c) ==
    LET entries == {SecondName} \cup (IF present THEN {ParamFileName} ELSE {})
    IN  FileSys("dir", entries,
                [p \in {Join(InputPath, f) : f \in entries} |->
                   IF p = Join(InputPath, ParamFileName) THEN c ELSE FrameFile("ok")])

ParamEnvs ==
    {ParamDirEnv(TRUE, c) : c \in ParamContents}
      \cup {ParamDirEnv(FALSE, Junk), NoEnv}
      \cup {FileSys("file", {}, [p \in {InputPath} |-> c]) : c \in ParamContents}

ParamsInit ==
    /\ fs \in ParamEnvs
    /\ obj = "none"
    /\ pattern_indices = Unset
    /\ poissonize = FALSE
    /\ parameters = NoParameters
    /\ op = "init"
    /\ err = "ok"
    /\ ctorOpens = <<>>
    /\ gen = NoGen
    /\ handles = {}
    /\ ioLog = <<>>
    /\ yielded = <<>>
    /\ skipped = <<>>
    /\ obtained = Unset
    /\ arg = PyNone
    /\ ret = PyNone

ParamsNext == LoadParameters

SpecParams == ParamsInit /\ [][ParamsNext]_vars

\* The constructor and the two setters alone.
SelNext ==
    \/ \E pi \in IndexInputs, pz \in FlagInputs :
         Construct(pi, pz) /\ UNCHANGED <<obtained, arg, ret>>
    \/ \E v \in IndexInputs : SetPatternIndices(v) /\ UNCHANGED <<obtained, arg, ret>>
    \/ \E v \in FlagInputs : SetPoissonize(v) /\ UNCHANGED <<obtained, arg, ret>>

\* One file system of each kind the constructor tells apart: a directory
\* with a readable or an unreadable parameter file, a readable or an
\* unreadable consolidated file, and a path that names nothing.
SelEnvs ==
    {DirEnv(TRUE, "ok", "ok", "ok"), DirEnv(TRUE, "bad", "ok", "ok"),
     FileEnv(TRUE, "ok", "ok"), FileEnv(FALSE, "ok", "ok"), NoEnv}

SelInit == Init /\ fs \in SelEnvs

SpecSel == SelInit /\ [][SelNext]_vars

(* ------------------- claims: the selection state ----------------------- *)

\* The kinds of value the claims speak of, by python type: an integer is an
\* int, an iterable is a value with __iter__ (a list here; a python 2 str
\* or long is neither).
ClaimInteger(v) == v.t = "int"
ClaimIterable(v) == v.t \in {"list", "strlist"}
ClaimAll(v) == v = PyStr("all")
ClaimInvalidIndices(v) ==
    ~(v = PyNone \/ ClaimInteger(v) \/ ClaimAll(v) \/ ClaimIterable(v))
ClaimInvalidFlag(v) == v.t \notin {"None", "bool"}

\* C1: assigning pattern_indices stores "all" for None, the one-element
\* list [k] for an integer k, "all" and any iterable as given, and raises
\* TypeError for every other value.
C1_SetterNormalizes ==
    [][op' = "set_pattern_indices" =>
         \A v \in IndexInputs :
           SetPatternIndices(v) =>
             IF v = PyNone THEN pattern_indices' = PyStr("all") /\ err' = "ok"
             ELSE IF ClaimInteger(v) THEN pattern_indices' = PyList(<<v.n>>) /\ err' = "ok"
             ELSE IF ClaimAll(v) \/ ClaimIterable(v) THEN pattern_indices' = v /\ err' = "ok"
             ELSE err' = "TypeError"]_vars

\* An integer was assigned and is stored as a one-element list.
C1_Witness ==
    /\ op = "set_pattern_indices" /\ err = "ok"
    /\ pattern_indices = PyList(<<-1>>)

C10_FailFast ==
    [][/\ op' = "construct" =>
            \A pi \in IndexInputs, pz \in FlagInputs :
              (ClaimInvalidIndices(pi) \/ ClaimInvalidFlag(pz)) /\ Construct(pi, pz) =>
                err' = "TypeError" /\ ctorOpens' = <<>> /\ obj' = "none"
       /\ op' = "set_pattern_indices" =>
            \A v \in IndexInputs :
              ClaimInvalidIndices(v) /\ SetPatternIndices(v) =>
                /\ err' = "TypeError"
                /\ UNCHANGED <<pattern_indices, poissonize, ctorOpens, ioLog, handles>>
       /\ op' = "set_poissonize" =>
            \A v \in FlagInputs :
              ClaimInvalidFlag(v) /\ SetPoissonize(v) =>
                /\ err' = "TypeError"
                /\ UNCHANGED <<pattern_indices, poissonize, ctorOpens, ioLog, handles>>]_vars

\* A constructor call was rejected where the parameter file could be read.
C10_Witness ==
    /\ op = "construct" /\ err = "TypeError" /\ obj = "none" /\ ctorOpens = <<>>
    /\ DiffractionParameters(fs, InputPath).status = "ok"

(* ------------------- claims: the pattern generator --------------------- *)

\* The files or keys of the frames yielded so far, in order.
YieldedItems == [j \in 1..Len(yielded) |-> yielded[j].item]

\* The key the claims expect for index i, 0 <= i <= 9.
ClaimKey(i) == <<"0", "0", "0", "0", "0", "0", DigitChar(i)>>

\* The dataset a frame was read from fits the flag in force at the read.
ClaimChannel(fr) == fr.ds = IF fr.pz THEN "data" ELSE "diffr"

\* No element of q occurs twice.
NoRepeat(q) == \A i, j \in 1..Len(q) : i # j => q[i] # q[j]

\* q ascends strictly in python's str order.
Ascending(q) == \A i, j \in 1..Len(q) : i < j => StrLess(q[i], q[j])

\* C2: in the consolidated layout, under an explicit index list, the j-th
\* frame is read from /data/<j-th index as seven zero-padded digits>/data
\* (poissonize) or /diffr (not), and a pass that runs to its end has
\* yielded one frame per index.
C2_ConsolidatedOrder ==
    gen.layout = "v0.2" /\ gen.indices.t = "list" /\ gen.state # "raised" =>
      /\ Len(yielded) <= Len(gen.indices.s)
      /\ \A j \in 1..Len(yielded) :
           /\ yielded[j].key = ClaimKey(gen.indices.s[j])
           /\ ClaimChannel(yielded[j])
           /\ Dataset(yielded[j].key, yielded[j].ds) \in fs.files[InputPath].data
      /\ gen.state = "exhausted" => Len(yielded) = Len(gen.indices.s)

\* A pass over two indices given in descending order has run to its end.
C2_Witness ==
    /\ gen.layout = "v0.2" /\ gen.state = "exhausted"
    /\ gen.indices = PyList(<<2, 1>>)
    /\ Len(yielded) = 2

\* Whether file f fails for a read of dataset ds.
ClaimFails(f, ds) == ~CanOpen(fs, f) \/ Dataset(<<>>, ds) \notin fs.files[f].data

\* C3: in the legacy layout no failure ends the pass; a pass that has run
\* to its end has yielded, once each and in sorted order, the selected
\* files that did not fail, and skipped exactly those that failed.
C3_LegacySkipsFailures ==
    gen.layout = "legacy" =>
      /\ gen.state # "raised"
      /\ gen.state = "exhausted" =>
           /\ Range(YieldedItems) \cup Range(skipped) = Range(gen.items)
           /\ Range(YieldedItems) \cap Range(skipped) = {}
           /\ NoRepeat(YieldedItems) /\ Ascending(YieldedItems)
           /\ \A j \in 1..Len(yielded) : ~ClaimFails(yielded[j].item, yielded[j].ds)
           /\ \A f \in Range(skipped) : ClaimFails(f, "data") \/ ClaimFails(f, "diffr")
           /\ \A f \in Range(gen.items) :
                ~ClaimFails(f, "data") /\ ~ClaimFails(f, "diffr") => f \in Range(YieldedItems)

\* A pass over three files has run to its end with one file skipped
\* between two files that were read.
C3_Witness ==
    /\ gen.layout = "legacy" /\ gen.state = "exhausted"
    /\ Len(gen.items) = 3 /\ Len(yielded) = 2
    /\ skipped = <<gen.items[2]>>

\* C4: in the consolidated layout nothing is skipped; when the read for
\* the j-th key fails the body ends with KeyError, the frames of the j-1
\* keys before it are what was yielded, and nothing is yielded after.
C4_ConsolidatedPropagates ==
    gen.layout = "v0.2" =>
      /\ skipped = <<>>
      /\ gen.state = "raised" /\ gen.pc = "loop" =>
           /\ gen.exc = "KeyError"
           /\ Len(yielded) = gen.pos - 1
           /\ \A j \in 1..Len(yielded) : yielded[j].key = gen.items[j]
           /\ LET last == ioLog[Len(ioLog)]
              IN  /\ last.what = "read"
                  /\ Dataset(gen.items[gen.pos], last.ds) \notin fs.files[InputPath].data
      /\ gen.state \in {"running", "suspended"} /\ gen.pc # "begin" =>
           Len(yielded) \in {gen.pos - 1, gen.pos}

\* The read for the second of two keys failed after the first was yielded,
\* and the caller has asked for a further frame since.
C4_Witness ==
    /\ gen.layout = "v0.2" /\ gen.state = "raised" /\ gen.exc = "KeyError"
    /\ gen.pos = 2 /\ Len(gen.items) = 3 /\ Len(yielded) = 1
    /\ err = "StopIteration"

\* C5: no file is opened and no dataset is read except under a next()
\* call: in particular not when the caller closes the generator at a frame.
C5_NoReadAhead == \A i \in 1..Len(ioLog) : ioLog[i].by = "next"

\* C6: the generator holds at most one file open, holds none between two
\* files of the legacy loop, and holds none once the body has ended
\* (exhausted, ended by an error, closed) or before it starts.
C6_OneHandle ==
    /\ Cardinality(handles) <= 1
    /\ gen.state \in {"none", "created", "exhausted", "raised", "closed"} => handles = {}
    /\ gen.layout = "legacy" /\ gen.pc = "loop" => handles = {}

\* The legacy loop stands between two files after skipping one it had
\* opened, a frame yielded before it.
C6_Witness ==
    /\ gen.layout = "legacy" /\ gen.state = "running" /\ gen.pc = "loop"
    /\ Len(yielded) >= 1 /\ Len(skipped) >= 1
    /\ CanOpen(fs, skipped[Len(skipped)])
    /\ gen.pos <= Len(gen.items)

\* The position of entry f in the sorted listing, counted from 0.
ClaimRank(f) == Cardinality({g \in fs.entries : StrLess(g, f)})

\* The name ends in ".h5".
ClaimIsH5(f) == Len(f) >= 3 /\ SubSeq(f, Len(f) - 2, Len(f)) = <<".", "h", "5">>

\* The files an explicit selection picks in the legacy layout.
ClaimSelected ==
    {Join(InputPath, f) :
       f \in {g \in fs.entries :
                ClaimIsH5(g) /\ gen.indices.t = "list" /\ ClaimRank(g) \in Range(gen.indices.s)}}

\* C8: in the legacy layout an explicit selection picks the entries whose
\* position in the sorted listing of all entries is among the indices and
\* whose name ends in .h5: only those are opened, each at most once and in
\* sorted order, and a pass that runs to its end has opened them all and
\* yielded those that could be read.
C8_LegacyPositions ==
    gen.layout = "legacy" /\ ~EqualsAll(gen.indices) =>
      LET opened == SelectSeq(ioLog, LAMBDA e : e.what = "open")
          files == [j \in 1..Len(opened) |-> opened[j].file]
      IN  /\ Range(files) \subseteq ClaimSelected
          /\ Ascending(files)
          /\ Range(YieldedItems) \subseteq Range(files)
          /\ Ascending(YieldedItems)
          /\ gen.state = "exhausted" =>
               /\ Range(files) = ClaimSelected
               /\ \A f \in ClaimSelected :
                    ~ClaimFails(f, "data") /\ ~ClaimFails(f, "diffr") => f \in Range(YieldedItems)

\* A pass under the selection [2, 1] has run to its end over a directory
\* whose entry 0 is no h5 file, and has yielded the entries 1 and 2.
C8_Witness ==
    /\ gen.layout = "legacy" /\ gen.state = "exhausted"
    /\ gen.indices = PyList(<<2, 1>>)
    /\ BakName \in fs.entries
    /\ YieldedItems = <<Join(InputPath, ParamFileName), Join(InputPath, SecondName)>>

(* ----------------- claims: diffractionParameters ----------------------- *)

\* The file the claim has the loader read.
ClaimParamFile ==
    IF fs.kind = "dir" THEN InputPath \o <<"/">> \o ParamFileName ELSE InputPath

\* The file can be read in full: it opens, both groups are there and no
\* child is unreadable.
ClaimReadable ==
    /\ ClaimParamFile \in DOMAIN fs.files
    /\ LET c == fs.files[ClaimParamFile]
       IN  c.open /\ c.beam.present /\ c.geom.present /\ c.beam.bad = {} /\ c.geom.bad = {}

\* C7: diffractionParameters opens the fixed file diffr_out_0000001.h5 of
\* a directory or the regular file itself and nothing else, raises IOError
\* with no open for a path that is neither, returns for a readable file
\* the two mappings beam and geom with every child of the corresponding
\* group and its value, and returns nothing when anything fails.
C7_ParameterLoading ==
    op = "diffractionParameters" =>
      /\ fs.kind = "none" => err = "IOError" /\ ctorOpens = <<>>
      /\ fs.kind # "none" => ctorOpens = <<ClaimParamFile>>
      /\ err = "ok" <=> fs.kind # "none" /\ ClaimReadable
      /\ err # "ok" => parameters = NoParameters
      /\ err = "ok" =>
           LET c == fs.files[ClaimParamFile]
           IN  /\ DOMAIN parameters = {"beam", "geom"}
               /\ DOMAIN parameters.beam = c.beam.kids
               /\ DOMAIN parameters.geom = c.geom.kids
               /\ \A k \in c.beam.kids :
                    parameters.beam[k] = [file |-> ClaimParamFile, group |-> "beam", name |-> k]
               /\ \A k \in c.geom.kids :
                    parameters.geom[k] = [file |-> ClaimParamFile, group |-> "geom", name |-> k]

\* The parameters of a directory were loaded from its fixed file.
C7_Witness ==
    /\ op = "diffractionParameters" /\ err = "ok" /\ fs.kind = "dir"
    /\ DOMAIN parameters.geom = GeomKids /\ DOMAIN parameters.beam = BeamKids

(* ------------------------- plotResolutionRings ------------------------- *)

\* A floating-point value: finite, with v its value in the fixed-point
\* unit of the place it stands in, or one of inf, -inf, nan.
Num(k, v) == [k |-> k, v |-> v]
Fin(v) == Num("fin", v)
PosInf == Num("inf", 0)
NegInf == Num("-inf", 0)
NaN == Num("nan", 0)

Abs(n) == IF n < 0 THEN -n ELSE n
Sign(n) == IF n < 0 THEN -1 ELSE IF n = 0 THEN 0 ELSE 1

\* The quotient of two integers, cut towards zero.
Quot(a, b) == Sign(a) * Sign(b) * (Abs(a) \div Abs(b))

SignOf(a) ==
    IF a.k = "fin" THEN Sign(a.v) ELSE IF a.k = "inf" THEN 1
    ELSE IF a.k = "-inf" THEN -1 ELSE 0

Signed(sg) == IF sg < 0 THEN NegInf ELSE PosInf

\* How an arithmetic step ends: with a value, or with an exception.
Step(raised, val) == [raised |-> raised, val |-> val]

\* a / b, the result scaled by scale. By zero a Python float raises
\* ZeroDivisionError; a numpy.float64 warns and gives inf, -inf or nan.
Divide(kind, a, b, scale) ==
    IF b.k = "fin" /\ b.v = 0
    THEN IF kind = "float" THEN Step("ZeroDivisionError", NaN)
         ELSE IF a.k = "nan" \/ SignOf(a) = 0 THEN Step("none", NaN)
         ELSE Step("none", Signed(SignOf(a)))
    ELSE IF a.k = "nan" \/ b.k = "nan" THEN Step("none", NaN)
    ELSE IF a.k = "fin" /\ b.k = "fin" THEN Step("none", Fin(Quot(a.v * scale, b.v)))
    ELSE IF a.k = "fin" THEN Step("none", Fin(0))
    ELSE IF b.k = "fin" THEN Step("none", Signed(SignOf(a) * SignOf(b)))
    ELSE Step("none", NaN)

\* a * b of two values, the second in units of 1/scale.
Times(a, b, scale) ==
    IF a.k = "nan" \/ b.k = "nan" THEN NaN
    ELSE IF a.k = "fin" /\ b.k = "fin" THEN Fin(Quot(a.v * b.v, scale))
    ELSE IF SignOf(a) = 0 \/ SignOf(b) = 0 THEN NaN
    ELSE Signed(SignOf(a) * SignOf(b))

\* 0.5 * a
Half(a) == IF a.k = "fin" THEN Fin(Quot(a.v, 2)) ELSE a

\* The value at x of a function tabulated at 0, 0.1, 0.2, ..., between two
\* entries on the straight line through them; x and the entries in 1e-4.
Interpolate(table, x) ==
    LET i == x \div 1000
        r == x % 1000
    IN  IF r = 0 THEN table[i + 1]
        ELSE table[i + 1] + ((table[i + 2] - table[i + 1]) * r) \div 1000

\* asin at 0, 0.1, ..., 1.0 in 1e-4 rad.
AsinTable == <<0, 1002, 2014, 3047, 4115, 5236, 6435, 7754, 9273, 11198, 15708>>

\* atan at 0, 0.1, ..., 1.0 in 1e-4 rad.
AtanTable == <<0, 997, 1974, 2915, 3805, 4636, 5404, 6107, 6747, 7328, 7854>>

\* sin at 0, 0.1, ..., 1.6 rad in 1e-4.
SinTable == <<0, 998, 1987, 2955, 3894, 4794, 5646, 6442, 7174, 7833, 8415,
              8912, 9320, 9636, 9854, 9975, 9996>>

\* numpy.arcsin: nan (with a warning, no exception) outside [-1, 1].
Arcsin(x) ==
    IF x.k # "fin" \/ Abs(x.v) > 10000 THEN NaN
    ELSE Fin(Sign(x.v) * Interpolate(AsinTable, Abs(x.v)))

\* numpy.arctan and math.atan: defined everywhere, atan(x) = pi/2 -
\* atan(1/x) above 1.
Arctan(x) ==
    IF x.k = "nan" THEN NaN
    ELSE IF x.k # "fin" THEN Fin(SignOf(x) * 15708)
    ELSE IF Abs(x.v) <= 10000 THEN Fin(Sign(x.v) * Interpolate(AtanTable, Abs(x.v)))
    ELSE Fin(Sign(x.v) * (15708 - Interpolate(AtanTable, 100000000 \div Abs(x.v))))

\* math.sin on an angle of [-pi/2, pi/2], or nan.
Sin(x) ==
    IF x.k # "fin" THEN NaN
    ELSE Fin(Sign(x.v) * Interpolate(SinTable, Abs(x.v)))

\* 0.1 * math.ceil(x * 10.0), x in 1e-4: math.ceil of Python 2 returns a
\* float and passes inf and nan on.
CeilTenth(x) == IF x.k # "fin" THEN x ELSE Fin(-((-x.v) \div 1000) * 1000)

\* ds = numpy.array([1.0, 0.5, .3]), in 0.1 nm.
ds == <<10, 5, 3>>

\* The parameters mapping: photonEnergy in eV, pixelWidth and detectorDist
\* in micrometre, mask.shape[0] in pixels; kind is the type the three
\* scalars have, Python float or numpy.float64 (what h5py hands out).
RingParameters(kind, E0, apix, Ddet, Npix) ==
    [kind |-> kind,
     beam |-> [photonEnergy |-> E0],
     geom |-> [pixelWidth |-> apix, detectorDist |-> Ddet, mask |-> Npix]]

\* What plotResolutionRings computed before it draws: the status, the
\* locals theta_max, d_min, d0 and the radii Ns in 1e-2 pixel.
Rings(status, theta_max, d_min, d0, Ns) ==
    [status |-> status, theta_max |-> theta_max, d_min |-> d_min, d0 |-> d0, Ns |-> Ns]

RingsRaised(e) == Rings(e, NaN, NaN, NaN, <<>>)

\* The radius with the spacing multiplied in where the source divides.
RingRadiusTimesSpacing(q, lmd, d) ==
    Times(q, Arctan(Arcsin(Times(Half(lmd), Fin(d), 10))), 10000)

\* One entry of Ddet/apix * numpy.arctan(numpy.arcsin(lmd/2./ds)): array
\* arithmetic, which never raises.
RingRadius(q, lmd, d) ==
    Times(q, Arctan(Arcsin(Divide("float64", Half(lmd), Fin(d), 10).val)), 10000)

\* plotResolutionRings up to the drawing, statement by statement; lmd and
\* d_min in 1e-4 nm, angles in 1e-4 rad.
PlotResolutionRings(p) ==
    LET E0 == Fin(p.beam.photonEnergy)
        apix == Fin(p.geom.pixelWidth)
        Ddet == Fin(p.geom.detectorDist)
        Npix == p.geom.mask
        lmd == Divide(p.kind, Fin(12398), E0, 1000)
    IN  IF lmd.raised # "none" THEN RingsRaised(lmd.raised)
        ELSE
          LET ratio == Divide(p.kind, Fin(Quot(Npix * apix.v, 2)), Ddet, 10000)
          IN  IF ratio.raised # "none" THEN RingsRaised(ratio.raised)
              ELSE
                LET theta_max == Arctan(ratio.val)
                    d_min == Divide(p.kind, Half(lmd.val), Sin(theta_max), 10000)
                IN  IF d_min.raised # "none" THEN RingsRaised(d_min.raised)
                    ELSE
                      LET d0 == CeilTenth(d_min.val)
                          q == Divide(p.kind, Ddet, apix, 100)
                      IN  IF q.raised # "none" THEN RingsRaised(q.raised)
                          ELSE Rings("ok", theta_max, d_min.val, d0,
                                     [i \in 1..Len(ds) |-> RingRadius(q.val, lmd.val, ds[i])])

\* The parameters the function is called with: energies below, at and
\* above zero, of which 300, 700 and 1500 eV put lmd/(2d) above 1 for
\* three, two and one of the spacings; a pixel width of zero; detector
\* distances below, at and above zero.
RingInputs ==
    {RingParameters(kind, E0, apix, Ddet, Npix) :
       kind \in {"float", "float64"},
       E0 \in {-6000, 0, 300, 700, 1500, 3000, 6000, 12000},
       apix \in {0, 110, 220},
       Ddet \in {-130000, 0, 65000, 130000},
       Npix \in {512, 1024}}

RingsInit ==
    /\ fs = NoEnv
    /\ obj = "none"
    /\ pattern_indices = Unset
    /\ poissonize = FALSE
    /\ parameters = NoParameters
    /\ op = "init"
    /\ err = "ok"
    /\ ctorOpens = <<>>
    /\ gen = NoGen
    /\ handles = {}
    /\ ioLog = <<>>
    /\ yielded = <<>>
    /\ skipped = <<>>
    /\ obtained = Unset
    /\ arg \in RingInputs
    /\ ret = PyNone

\* plotResolutionRings(parameters), called once.
CallPlotResolutionRings ==
    /\ op = "init"
    /\ ret' = PlotResolutionRings(arg)
    /\ err' = ret'.status
    /\ op' = "plotResolutionRings"
    /\ UNCHANGED <<fs, obj, pattern_indices, poissonize, parameters, ctorOpens, gen,
                   handles, ioLog, yielded, skipped, obtained, arg>>

RingsNext == CallPlotResolutionRings

SpecRings == RingsInit /\ [][RingsNext]_vars

(* ------------------- claims: plotResolutionRings ----------------------- *)

\* lmd/(2d) > 1 for the spacing d (in 0.1 nm) at a positive energy E0 (eV),
\* lmd being 1239.8/E0 nm.
ClaimBeyondDomain(E0, d) == 12398 > 2 * d * E0

\* An input the ring computation has to refuse.
ClaimRingInvalid ==
    \/ arg.beam.photonEnergy <= 0
    \/ arg.geom.detectorDist <= 0
    \/ \E d \in {10, 5, 3} : ClaimBeyondDomain(arg.beam.photonEnergy, d)

\* C11: whenever photonEnergy <= 0, detectorDist <= 0 or lmd/(2d) > 1 for
\* one of the three spacings, the ring computation ends with an error and
\* produces no radii.
C11_InvalidInputsFail ==
    op = "plotResolutionRings" /\ ClaimRingInvalid =>
      err # "ok" /\ ret.Ns = <<>>

\* Valid inputs: positive energy, pixel width and detector distance, and
\* lmd/(2d) <= 1 for the three spacings.
ClaimRingValid ==
    /\ arg.beam.photonEnergy > 0
    /\ arg.geom.pixelWidth > 0
    /\ arg.geom.detectorDist > 0
    /\ \A d \in {10, 5, 3} : ~ClaimBeyondDomain(arg.beam.photonEnergy, d)

\* The radii were computed and each is finite and positive.
ClaimFinitePositive ==
    /\ err = "ok"
    /\ Len(ret.Ns) = 3
    /\ \A i \in 1..3 : ret.Ns[i].k = "fin" /\ ret.Ns[i].v > 0

\* C12 as stated: for valid inputs the three radii are finite, positive and
\* decrease as the spacing decreases from 1.0 over 0.5 to 0.3 nm.
C12_RadiiDecreaseWithSpacing ==
    op = "plotResolutionRings" /\ ClaimRingValid =>
      /\ ClaimFinitePositive
      /\ ret.Ns[1].v > ret.Ns[2].v /\ ret.Ns[2].v > ret.Ns[3].v

\* C12: for valid inputs the three radii are finite, positive and increase
\* as the spacing decreases from 1.0 over 0.5 to 0.3 nm.
C12_RadiiIncreaseAsSpacingDecreases ==
    op = "plotResolutionRings" /\ ClaimRingValid =>
      /\ ClaimFinitePositive
      /\ ret.Ns[1].v < ret.Ns[2].v /\ ret.Ns[2].v < ret.Ns[3].v

\* The rings of 6000 eV, 220 micrometre pixels, 0.13 m and 1024 pixels
\* were computed: the 1.0 nm ring lies near pixel 61, the 0.3 nm ring
\* near pixel 200.
C12_Witness ==
    /\ op = "plotResolutionRings" /\ ClaimRingValid
    /\ arg.beam.photonEnergy = 6000 /\ arg.geom.pixelWidth = 220
    /\ arg.geom.detectorDist = 130000 /\ arg.geom.mask = 1024
    /\ ret.Ns[1].v \in 6000..6200 /\ ret.Ns[3].v \in 19800..20200

(* --------------------------- photonStatistics -------------------------- *)

\* The largest number of frames in a stack, of photons in a frame, and of
\* photons in each frame but the last.
MaxFrames == 21
MaxPhotons == 45
MaxLow == 3

RECURSIVE SumSeq(_)
SumSeq(q) == IF q = <<>> THEN 0 ELSE q[1] + SumSeq(Tail(q))

\* numpy.max and numpy.min of a non-empty array.
MaxOf(q) == CHOOSE m \in Range(q) : \A x \in Range(q) : x <= m
MinOf(q) == CHOOSE m \in Range(q) : \A x \in Range(q) : m <= x

\* The integer square root of n, known to lie in lo..hi.
RECURSIVE IsqrtBetween(_, _, _)
IsqrtBetween(n, lo, hi) ==
    IF lo = hi THEN lo
    ELSE LET mid == (lo + hi + 1) \div 2
         IN  IF mid * mid <= n THEN IsqrtBetween(n, mid, hi)
             ELSE IsqrtBetween(n, lo, mid - 1)

\* numpy.mean in 1e-2.
Mean(q) == (100 * SumSeq(q)) \div Len(q)

\* numpy.std, the population standard deviation, in 1e-1.
Std(q) ==
    LET n == Len(q)
        sq == SumSeq([i \in 1..n |-> q[i] * q[i]])
        num == n * sq - SumSeq(q) * SumSeq(q)
    IN  IsqrtBetween(100 * num, 0, 10 * n * MaxOf(q) + 1) \div n

\* xrange(a, b, step) for a positive step.
XRange(a, b, step) ==
    IF b <= a THEN <<>>
    ELSE [i \in 1..((b - a + step - 1) \div step) |-> a + (i - 1) * step]

\* What photonStatistics computed before it draws: the status, the two
\* numbers it prints, the bin width, the number of bins it aims at and
\* the bin edges it hands to plt.hist.
Stats(status, avg, rms, binwidth, number_of_bins, edges) ==
    [status |-> status, avg_photons |-> avg, rms_photons |-> rms,
     binwidth |-> binwidth, number_of_bins |-> number_of_bins, edges |-> edges]

\* photonStatistics, statement by statement, for a stack of integer
\* frames: numpy.max of no frames raises ValueError, and so does xrange
\* for a step of zero.
PhotonStatistics(stack) ==
    LET number_of_images == Len(stack)
        photons == [i \in 1..number_of_images |-> SumSeq(stack[i])]
    IN  IF number_of_images = 0 THEN Stats("ValueError", 0, 0, 0, 0, <<>>)
        ELSE
          LET max_photon_number == MaxOf(photons)
              min_photon_number == MinOf(photons)
              number_of_bins == IF 20 < number_of_images THEN 20 ELSE number_of_images
              binwidth == (max_photon_number - min_photon_number) \div number_of_bins
          IN  IF binwidth = 0
              THEN Stats("ValueError", Mean(photons), Std(photons), binwidth,
                         number_of_bins, <<>>)
              ELSE Stats("ok", Mean(photons), Std(photons), binwidth, number_of_bins,
                         XRange(min_photon_number, max_photon_number, binwidth))

\* A frame of two pixels with a given total.
FrameOf(total) == <<total \div 2, total - total \div 2>>

\* The stacks the function is called with: none to MaxFrames frames, all
\* of one total but the last.
StackInputs ==
    {[i \in 1..n |-> IF i = n THEN FrameOf(hi) ELSE FrameOf(lo)] :
       n \in 0..MaxFrames, lo \in 0..MaxLow, hi \in 0..MaxPhotons}

StatsInit ==
    /\ fs = NoEnv
    /\ obj = "none"
    /\ pattern_indices = Unset
    /\ poissonize = FALSE
    /\ parameters = NoParameters
    /\ op = "init"
    /\ err = "ok"
    /\ ctorOpens = <<>>
    /\ gen = NoGen
    /\ handles = {}
    /\ ioLog = <<>>
    /\ yielded = <<>>
    /\ skipped = <<>>
    /\ obtained = Unset
    /\ arg \in StackInputs
    /\ ret = PyNone

\* photonStatistics(stack), called once.
CallPhotonStatistics ==
    /\ op = "init"
    /\ ret' = PhotonStatistics(arg)
    /\ err' = ret'.status
    /\ op' = "photonStatistics"
    /\ UNCHANGED <<fs, obj, pattern_indices, poissonize, parameters, ctorOpens, gen,
                   handles, ioLog, yielded, skipped, obtained, arg>>

StatsNext == CallPhotonStatistics

SpecStats == StatsInit /\ [][StatsNext]_vars

(* --------------------- claims: photonStatistics ------------------------ *)

\* The per-frame totals of the stack the function was called with.
ClaimPhotons == [i \in 1..Len(arg) |-> SumSeq(arg[i])]

ClaimMax == MaxOf(ClaimPhotons)
ClaimMin == MinOf(ClaimPhotons)

\* min(20, N)
ClaimBins == IF Len(arg) < 20 THEN Len(arg) ELSE 20

\* C13: for a stack of N frames whose totals are not all equal the
\* histogram has exactly min(20, N) bins of one width, the first edge at
\* min(photons) and every edge in [min(photons), max(photons)).
C13_HistogramBins ==
    op = "photonStatistics" /\ Len(arg) >= 1 /\ ClaimMax > ClaimMin =>
      /\ err = "ok"
      /\ Len(ret.edges) - 1 = ClaimBins
      /\ ret.edges[1] = ClaimMin
      /\ \A i \in 1..Len(ret.edges) : ret.edges[i] >= ClaimMin /\ ret.edges[i] < ClaimMax
      /\ \A i \in 1..(Len(ret.edges) - 1) : ret.edges[i + 1] - ret.edges[i] = ret.binwidth

\* C17: for a stack of N >= 1 frames whose totals are not all equal the
\* bin width is a strictly positive integer and the call ends without an
\* error; the bin width is zero only when max(photons) = min(photons).
C17_PositiveBinWidth ==
    op = "photonStatistics" /\ Len(arg) >= 1 =>
      /\ ClaimMax > ClaimMin => ret.binwidth > 0 /\ err = "ok"
      /\ ret.binwidth = 0 => ClaimMax = ClaimMin

(* --------------------- DetectorPanel, DetectorGeometry ----------------- *)

\* The largest number of panel instances, which is also the largest panel
\* index a block is written with.
MaxPanels == 2

\* A length: num/den of the unit, the unit being 10^-exp metre.
Quantity(num, den, unit) == [num |-> num, den |-> den, unit |-> unit]

UnitExp(unit) ==
    CASE unit = "meter" -> 0 [] unit = "millimeter" -> 3 [] unit = "micrometer" -> 6

RECURSIVE Pow10(_)
Pow10(n) == IF n = 0 THEN 1 ELSE 10 * Pow10(n - 1)

\* A rational p/q.
Ratio(p, q) == [p |-> p, q |-> q]

\* The length in metres.
InMeters(x) == Ratio(x.num, x.den * Pow10(UnitExp(x.unit)))

\* Two lengths are equal when they are the same length in metres.
QuantityEq(x, y) == InMeters(x).p * InMeters(y).q = InMeters(y).p * InMeters(x).q

\* p/q > 0 brought to q <= p < 10 q, e counting the powers of ten.
RECURSIVE Normalize(_, _, _)
Normalize(p, q, e) ==
    IF p >= 10 * q THEN Normalize(p, 10 * q, e + 1)
    ELSE IF p < q THEN Normalize(10 * p, q, e - 1)
    ELSE [p |-> p, q |-> q, e |-> e]

\* n further decimal digits of rem/q appended to the digits m.
RECURSIVE LongDiv(_, _, _, _)
LongDiv(rem, q, n, m) ==
    IF n = 0 THEN [m |-> m, rem |-> rem]
    ELSE LongDiv((rem * 10) % q, q, n - 1, m * 10 + (rem * 10) \div q)

\* The eight significant digits m and the exponent e of p/q >= 0, rounded
\* to nearest.
Sci(r) ==
    IF r.p = 0 THEN [m |-> 0, e |-> 0]
    ELSE LET nz == Normalize(r.p, r.q, 0)
             body == LongDiv(nz.p % nz.q, nz.q, 7, nz.p \div nz.q)
             m == IF 2 * body.rem >= nz.q THEN body.m + 1 ELSE body.m
         IN  IF m = 100000000 THEN [m |-> 10000000, e |-> nz.e + 1]
             ELSE [m |-> m, e |-> nz.e]

\* The w last decimal digits of n.
RECURSIVE PadDigits(_, _)
PadDigits(n, w) == IF w = 0 THEN "" ELSE PadDigits(n \div 10, w - 1) \o DigitChar(n % 10)

\* The decimal digits of n >= 0 as a string.
RECURSIVE DigitStr(_)
DigitStr(n) == IF n < 10 THEN DigitChar(n) ELSE DigitStr(n \div 10) \o DigitChar(n % 10)

\* "%d" % n
IntStr(n) == IF n < 0 THEN "-" \o DigitStr(-n) ELSE DigitStr(n)

\* "%8.7e" % x: one digit, seven decimals, a signed exponent of two digits.
FormatSci(r) ==
    LET sc == Sci(r)
    IN  DigitChar(sc.m \div 10000000) \o "." \o PadDigits(sc.m % 10000000, 7)
          \o "e" \o (IF sc.e < 0 THEN "-" ELSE "+") \o PadDigits(Abs(sc.e), 2)

\* The attributes of a panel; an orientation of "None" is one not given.
PanelAttributes(ranges, pixel_size, distance, fast_scan_xyz, slow_scan_xyz, corners) ==
    [dimensions |-> <<"ss", "fs">>,
     ranges |-> ranges,
     pixel_size |-> pixel_size,
     distance_from_interaction_plane |-> distance,
     distance_offset |-> Quantity(0, 1, "meter"),
     fast_scan_xyz |-> fast_scan_xyz,
     slow_scan_xyz |-> slow_scan_xyz,
     corners |-> corners,
     badregion_flag |-> FALSE]

Ranges(fmin, fmax, smin, smax) ==
    [fast_scan_min |-> fmin, fast_scan_max |-> fmax,
     slow_scan_min |-> smin, slow_scan_max |-> smax]

\* DetectorPanel(...): the attributes as given, an orientation not given
\* set to the unit vector of its axis.
DetectorPanel(a) ==
    [a EXCEPT !.fast_scan_xyz = IF @ = "None" THEN "1.0*x" ELSE @,
              !.slow_scan_xyz = IF @ = "None" THEN "1.0*y" ELSE @]

\* panel == other: attribute by attribute, lengths compared as lengths.
PanelEq(a, b) ==
    /\ a.dimensions = b.dimensions /\ a.ranges = b.ranges /\ a.corners = b.corners
    /\ QuantityEq(a.pixel_size, b.pixel_size)
    /\ QuantityEq(a.distance_from_interaction_plane, b.distance_from_interaction_plane)
    /\ QuantityEq(a.distance_offset, b.distance_offset)
    /\ a.fast_scan_xyz = b.fast_scan_xyz /\ a.slow_scan_xyz = b.slow_scan_xyz
    /\ a.badregion_flag = b.badregion_flag

\* The panel index of a call: given, or left out.
IndexGiven(n) == [given |-> TRUE, n |-> n]
IndexOmitted == [given |-> FALSE, n |-> 0]

\* The block with the pixel size written where its reciprocal belongs.
PanelSerializePixelSize(panel, ix) ==
    LET id == IF ix.given THEN ix.n ELSE 0
        pre == "panel" \o IntStr(id) \o "/"
    IN  << ";panel " \o IntStr(id),
           pre \o "min_fs        = " \o IntStr(panel.ranges.fast_scan_min),
           pre \o "max_fs        = " \o IntStr(panel.ranges.fast_scan_max),
           pre \o "min_ss        = " \o IntStr(panel.ranges.slow_scan_min),
           pre \o "max_ss        = " \o IntStr(panel.ranges.slow_scan_max),
           pre \o "corner_x      = " \o IntStr(panel.corners.x),
           pre \o "corner_y      = " \o IntStr(panel.corners.y),
           pre \o "fast_scan_xyz = " \o panel.fast_scan_xyz,
           pre \o "slow_scan_xyz = " \o panel.slow_scan_xyz,
           pre \o "clen          = "
               \o FormatSci(InMeters(panel.distance_from_interaction_plane)),
           pre \o "res           = " \o FormatSci(InMeters(panel.pixel_size)),
           "" >>

\* panel._serialize(stream, panel_id): the lines written, the panel index
\* 0 when none is given; res is 1 / pixel size in metres.
PanelSerialize(panel, ix) ==
    LET id == IF ix.given THEN ix.n ELSE 0
        pre == "panel" \o IntStr(id) \o "/"
        size == InMeters(panel.pixel_size)
    IN  << ";panel " \o IntStr(id),
           pre \o "min_fs        = " \o IntStr(panel.ranges.fast_scan_min),
           pre \o "max_fs        = " \o IntStr(panel.ranges.fast_scan_max),
           pre \o "min_ss        = " \o IntStr(panel.ranges.slow_scan_min),
           pre \o "max_ss        = " \o IntStr(panel.ranges.slow_scan_max),
           pre \o "corner_x      = " \o IntStr(panel.corners.x),
           pre \o "corner_y      = " \o IntStr(panel.corners.y),
           pre \o "fast_scan_xyz = " \o panel.fast_scan_xyz,
           pre \o "slow_scan_xyz = " \o panel.slow_scan_xyz,
           pre \o "clen          = "
               \o FormatSci(InMeters(panel.distance_from_interaction_plane)),
           pre \o "res           = " \o FormatSci(Ratio(size.q, size.p)),
           "" >>

\* The argument of DetectorGeometry(...): nothing, one panel, or a
\* sequence of panels; ids are the instances, panels their values.
GeometryArg(kind, ids, panels) == [kind |-> kind, ids |-> ids, panels |-> panels]

\* The constructor taking the empty sequence for a geometry.
DetectorGeometryAcceptsEmpty(g) ==
    IF g.kind = "none" THEN Step("TypeError", <<>>)
    ELSE Step("none", g.panels)

\* DetectorGeometry(panels): fails without panels, wraps a single panel
\* into a sequence of one, keeps a sequence in its order.
DetectorGeometry(g) ==
    IF g.kind = "none" THEN Step("TypeError", <<>>)
    ELSE IF g.kind = "sequence" /\ g.panels = <<>> THEN Step("ValidationError", <<>>)
    ELSE Step("none", g.panels)

\* The panel of the unit test, one of other ranges, units and
\* orientations, and the test's panel with its pixel size in micrometre.
PanelInputs ==
    {PanelAttributes(Ranges(0, 511, 512, 1024), Quantity(22, 100000, "meter"),
                     Quantity(13, 100, "meter"), "None", "None",
                     [x |-> -512, y |-> -256]),
     PanelAttributes(Ranges(512, 1023, 0, 511), Quantity(110, 1, "micrometer"),
                     Quantity(65, 1, "millimeter"), "1.0*y", "-1.0*x",
                     [x |-> 0, y |-> 256]),
     PanelAttributes(Ranges(0, 511, 512, 1024), Quantity(220, 1, "micrometer"),
                     Quantity(13, 100, "meter"), "None", "None",
                     [x |-> -512, y |-> -256])}

\* What the calls on panels and geometries left behind: two sinks with
\* the record of what was serialized to each, the copies made, the
\* argument of the last geometry construction and the geometry built.
PanelState(sinks, written, made, asked, geometry) ==
    [sinks |-> sinks, written |-> written, made |-> made, asked |-> asked,
     geometry |-> geometry]

NoGeometry == [built |-> FALSE, panels |-> <<>>]

PanelInit ==
    /\ fs = NoEnv
    /\ obj = "none"
    /\ pattern_indices = Unset
    /\ poissonize = FALSE
    /\ parameters = NoParameters
    /\ op = "init"
    /\ err = "ok"
    /\ ctorOpens = <<>>
    /\ gen = NoGen
    /\ handles = {}
    /\ ioLog = <<>>
    /\ yielded = <<>>
    /\ skipped = <<>>
    /\ obtained = Unset
    /\ arg = <<>>
    /\ ret = PanelState(<< <<>>, <<>> >>, << <<>>, <<>> >>, <<>>,
                        GeometryArg("none", <<>>, <<>>), NoGeometry)

\* panel = DetectorPanel(...): a new instance, the next in arg.
NewPanel(a) ==
    /\ Len(arg) < MaxPanels
    /\ arg' = Append(arg, DetectorPanel(a))
    /\ op' = "DetectorPanel"
    /\ err' = "ok"
    /\ UNCHANGED <<fs, obj, pattern_indices, poissonize, parameters, ctorOpens, gen,
                   handles, ioLog, yielded, skipped, obtained, ret>>

\* copy_panel = DetectorPanel(origin_panel): a new instance with the
\* attributes of the instance i.
CopyPanel(i) ==
    /\ Len(arg) < MaxPanels
    /\ arg' = Append(arg, DetectorPanel(arg[i]))
    /\ ret' = [ret EXCEPT !.made = Append(@, [from |-> i, to |-> Len(arg) + 1])]
    /\ op' = "copy"
    /\ err' = "ok"
    /\ UNCHANGED <<fs, obj, pattern_indices, poissonize, parameters, ctorOpens, gen,
                   handles, ioLog, yielded, skipped, obtained>>

\* panel._serialize(stream=sink k, panel_id=ix) for the instance i and a
\* fresh sink: the block is appended to what the sink holds.
SerializePanel(i, ix, k) ==
    /\ ret.written[k] = <<>>
    /\ ret' = [ret EXCEPT !.sinks[k] = @ \o PanelSerialize(arg[i], ix),
                          !.written[k] = <<[panel |-> i, index |-> ix]>>]
    /\ op' = "_serialize"
    /\ err' = "ok"
    /\ UNCHANGED <<fs, obj, pattern_indices, poissonize, parameters, ctorOpens, gen,
                   handles, ioLog, yielded, skipped, obtained, arg>>

\* The arguments a geometry can be constructed with from the instances
\* there are: nothing, one of them, or a sequence of none, one or two.
GeometryArgs ==
    {GeometryArg("none", <<>>, <<>>)}
      \cup {GeometryArg("panel", <<i>>, <<arg[i]>>) : i \in 1..Len(arg)}
      \cup {GeometryArg("sequence", ids, [j \in 1..Len(ids) |-> arg[ids[j]]]) :
              ids \in {<<>>} \cup {<<i>> : i \in 1..Len(arg)}
                        \cup {<<i, j>> : i \in 1..Len(arg), j \in 1..Len(arg)}}

\* geometry = DetectorGeometry(...), while no geometry is there.
ConstructGeometry(g) ==
    /\ ~ret.geometry.built
    /\ LET r == DetectorGeometry(g)
       IN  /\ err' = IF r.raised = "none" THEN "ok" ELSE r.raised
           /\ ret' = [ret EXCEPT !.asked = g,
                                 !.geometry = IF r.raised = "none"
                                              THEN [built |-> TRUE, panels |-> r.val]
                                              ELSE @]
    /\ op' = "DetectorGeometry"
    /\ UNCHANGED <<fs, obj, pattern_indices, poissonize, parameters, ctorOpens, gen,
                   handles, ioLog, yielded, skipped, obtained, arg>>

PanelNext ==
    \/ \E a \in PanelInputs : NewPanel(a)
    \/ \E i \in 1..Len(arg), k \in 1..2,
          ix \in {IndexOmitted} \cup {IndexGiven(n) : n \in 0..MaxPanels} :
         SerializePanel(i, ix, k)

SpecPanel == PanelInit /\ [][PanelNext]_vars

GeometryNext ==
    \/ \E a \in PanelInputs : NewPanel(a)
    \/ \E i \in 1..Len(arg) : CopyPanel(i)
    \/ \E g \in GeometryArgs : ConstructGeometry(g)

SpecGeometry == PanelInit /\ [][GeometryNext]_vars

(* ---------------- claims: DetectorPanel, DetectorGeometry -------------- *)

\* The index a block was written with: the one given, else 0.
ClaimIndex(w) == IF w.index.given THEN w.index.n ELSE 0

\* The ten field names in the order of the format, in their column.
ClaimFieldNames ==
    <<"min_fs        ", "max_fs        ", "min_ss        ", "max_ss        ",
      "corner_x      ", "corner_y      ", "fast_scan_xyz ", "slow_scan_xyz ",
      "clen          ", "res           ">>

\* 1 / pixel size, the pixel size in metres.
ClaimPixelsPerMeter(panel) ==
    Ratio(panel.pixel_size.den * Pow10(UnitExp(panel.pixel_size.unit)),
          panel.pixel_size.num)

\* The values of the ten fields for a panel.
ClaimFieldValues(panel) ==
    <<IntStr(panel.ranges.fast_scan_min), IntStr(panel.ranges.fast_scan_max),
      IntStr(panel.ranges.slow_scan_min), IntStr(panel.ranges.slow_scan_max),
      IntStr(panel.corners.x), IntStr(panel.corners.y),
      panel.fast_scan_xyz, panel.slow_scan_xyz,
      FormatSci(InMeters(panel.distance_from_interaction_plane)),
      FormatSci(ClaimPixelsPerMeter(panel))>>

\* The block of a panel under the index i: the label, the ten fields, a
\* blank line.
ClaimBlock(i, panel) ==
    <<";panel " \o IntStr(i)>>
      \o [j \in 1..10 |->
            "panel" \o IntStr(i) \o "/" \o ClaimFieldNames[j] \o "= "
              \o ClaimFieldValues(panel)[j]]
      \o <<"">>

\* C14: serializing a panel with index i to a fresh sink writes exactly
\* one block: the label ";panel i", the ten fields in the fixed order,
\* each prefixed panel<i>/ and carrying the panel's own value (res the
\* reciprocal of the pixel size in metres, no orientation left as None),
\* then a blank line; the index is 0 when none is given, and the same
\* panel serialized to two fresh sinks gives the same output.
C14_PanelBlock ==
    /\ \A k \in 1..2 :
         /\ ret.written[k] = <<>> => ret.sinks[k] = <<>>
         /\ ret.written[k] # <<>> =>
              LET w == ret.written[k][1]
              IN  /\ ret.sinks[k] = ClaimBlock(ClaimIndex(w), arg[w.panel])
                  /\ arg[w.panel].fast_scan_xyz # "None"
                  /\ arg[w.panel].slow_scan_xyz # "None"
    /\ ret.written[1] # <<>> /\ ret.written[2] # <<>>
         /\ PanelEq(arg[ret.written[1][1].panel], arg[ret.written[2][1].panel])
         /\ ClaimIndex(ret.written[1][1]) = ClaimIndex(ret.written[2][1])
         => ret.sinks[1] = ret.sinks[2]

\* The panel of the unit test was serialized to the first sink without an
\* index and to the second with index 0, and both hold the reference
\* block of the test.
C14_Witness ==
    /\ ret.written[1] # <<>> /\ ret.written[2] # <<>>
    /\ ~ret.written[1][1].index.given
    /\ ret.written[2][1].index = IndexGiven(0)
    /\ ret.sinks[2] = ret.sinks[1]
    /\ ret.sinks[1] =
         << ";panel 0",
            "panel0/min_fs        = 0",
            "panel0/max_fs        = 511",
            "panel0/min_ss        = 512",
            "panel0/max_ss        = 1024",
            "panel0/corner_x      = -512",
            "panel0/corner_y      = -256",
            "panel0/fast_scan_xyz = 1.0*x",
            "panel0/slow_scan_xyz = 1.0*y",
            "panel0/clen          = 1.3000000e-01",
            "panel0/res           = 4.5454545e+03",
            "" >>

\* C15: a geometry holds at least one panel: construction without panels
\* or from an empty sequence fails and builds nothing, construction from
\* a single panel gives a geometry whose panels[0] equals that panel by
\* value, and a copy-constructed panel equals its original by value and
\* is another instance.
C15_GeometryHoldsPanels ==
    /\ ret.geometry.built => Len(ret.geometry.panels) >= 1
    /\ op = "DetectorGeometry" =>
         /\ ret.asked.kind = "none" \/ ret.asked.panels = <<>> =>
              err # "ok" /\ ~ret.geometry.built
         /\ ret.asked.kind = "panel" =>
              /\ err = "ok" /\ ret.geometry.built
              /\ Len(ret.geometry.panels) = 1
              /\ PanelEq(ret.geometry.panels[1], arg[ret.asked.ids[1]])
    /\ \A j \in 1..Len(ret.made) :
         /\ PanelEq(arg[ret.made[j].from], arg[ret.made[j].to])
         /\ ret.made[j].from # ret.made[j].to

\* A geometry was built from a single panel that is the copy of another.
C15_Witness ==
    /\ op = "DetectorGeometry" /\ err = "ok" /\ ret.geometry.built
    /\ ret.asked.kind = "panel" /\ ret.asked.ids = <<2>>
    /\ ret.made = <<[from |-> 1, to |-> 2]>>
    /\ Len(ret.geometry.panels) = 1

(* ------------- reassignment while an iterator is in use ---------------- *)

\* The selections and the flags assigned in this specification.
ReassignIndices == {PyNone, PyInt(1), PyList(<<1, 0>>)}
ReassignFlags == {PyBool(TRUE), PyBool(FALSE)}

\* A legacy directory and a consolidated file whose frames can all be read.
ReassignEnvs == {DirEnv(FALSE, "ok", "ok", "ok"), FileEnv(TRUE, "ok", "ok")}

ReassignInit == Init /\ fs \in ReassignEnvs

\* The calls on the instance, the setters at any time no call is running;
\* obtaining the iterator notes the selection and the flag of that moment.
ReassignNext ==
    \/ \E pi \in ReassignIndices, pz \in ReassignFlags :
         Construct(pi, pz) /\ UNCHANGED <<obtained, arg, ret>>
    \/ \E v \in ReassignIndices : SetPatternIndices(v) /\ UNCHANGED <<obtained, arg, ret>>
    \/ \E v \in ReassignFlags : SetPoissonize(v) /\ UNCHANGED <<obtained, arg, ret>>
    \/ /\ Obtain
       /\ obtained' = [sel |-> pattern_indices, pz |-> poissonize]
       /\ UNCHANGED <<arg, ret>>
    \/ GeneratorNext /\ UNCHANGED <<obtained, arg, ret>>
    \/ GeneratorClose /\ UNCHANGED <<obtained, arg, ret>>
    \/ GenBegin /\ UNCHANGED <<obtained, arg, ret>>
    \/ LegacyOpen /\ UNCHANGED <<obtained, arg, ret>>
    \/ LegacyRead /\ UNCHANGED <<obtained, arg, ret>>
    \/ ConsRead /\ UNCHANGED <<obtained, arg, ret>>

SpecReassign == ReassignInit /\ [][ReassignNext]_vars

\* C16: every frame of a pass is read from the channel, and the body of
\* the iterator works from the selection, that were in force when the
\* iterator was obtained, whatever is assigned to poissonize or
\* pattern_indices after that.
C16_PassKeepsSelection ==
    obtained # Unset /\ gen.state # "none" =>
      /\ \A j \in 1..Len(yielded) : yielded[j].pz = obtained.pz
      /\ gen.pc # "begin" => gen.indices = obtained.sel

====
